---- MODULE Spec2Model ----
(***************************************************************************)
(* A model of the aero-SEA wrapper around the Pyva physics engine:         *)
(*   - sea_engine/core/engine.py: the entity registry and build_model /    *)
(*     solve of SEAEngine;                                                 *)
(*   - sea_engine/utils/posttreatment.py: PostTreatment (set_units,        *)
(*     process_model, export_json, export_hdf5) and load_results;          *)
(*   - sea_engine/models/project.py: SEAProject (registration, save, load).*)
(* Python's None is the empty sequence, an optional value x is <<x>>.      *)
(* Real numbers are integers counted in tenths where a fraction matters.   *)
(***************************************************************************)
EXTENDS Integers, Sequences, FiniteSets, TLC

VARIABLES
  systems,          \* SEAEngine.systems: entities in registration order
  system_id,        \* the system_id field of every entity object (0 = None)
  counter,          \* SEAEngine._system_counter
  junctions,        \* SEAEngine.junctions: dict, as a sequence of <<name, junction>>
  loads,            \* SEAEngine.loads: dict, as a sequence of <<name, load>>
  model,            \* SEAEngine.model: None or the HybridModel
  pyva_available,   \* SEAEngine._pyva_available
  logs,             \* whether the caller's registrations of junctions and loads are logged
  nbuild,           \* number of build_model runs so far
  returned,         \* the id the last registration returned (0: none yet)
  last              \* what the call just made did, if build_model or solve

engineVars == <<systems, system_id, counter, junctions, loads, model,
                pyva_available, logs, nbuild, returned, last>>

VARIABLES
  units,            \* PostTreatment._units
  rd,               \* PostTreatment.result_data, the bundle
  file,             \* the exported document on disk, None before an export
  nproc,            \* number of process_model calls so far
  ptlast,           \* what the PostTreatment call just made was given and did
  solver,           \* the result arrays of the solved models the caller holds, by name
  keeps,            \* whether the caller keeps the bundle its first process_model returned
  kept,             \* that bundle as it was returned, None while there is none
  h5py_available    \* whether "import h5py" succeeds

postVars == <<units, rd, file, nproc, ptlast, solver, keeps, kept, h5py_available>>

VARIABLES
  structures,       \* SEAProject.structures: dict, as a sequence of <<name, element>>
  acoustic_spaces,  \* SEAProject.acoustic_spaces: dict, as a sequence of <<name, space>>
  project_file,     \* the project document SEAProject.save wrote, None before
  loaded            \* the project SEAProject.load returned, None before

projectVars == <<structures, acoustic_spaces, project_file, loaded>>

vars == <<engineVars, postVars, projectVars>>

\* ------------------------------------------------------------------ bounds
MaxSystems == 3
MaxBuilds == 2
MaxProcess == 2

\* ------------------------------------------------------------ Python values
None == <<>>
Some(x) == <<x>>
IsNone(o) == o = <<>>
Val(o) == o[1]

\* A float: finite (v in tenths) or infinite.
Fin(v) == [inf |-> FALSE, v |-> v]
Inf == [inf |-> TRUE, v |-> 0]

\* bool(x) of an optional float: None and 0.0 are falsy.
Truthy(o) == ~IsNone(o) /\ (Val(o).inf \/ Val(o).v # 0)

\* A dict keeps insertion order; assigning to an existing key keeps its place.
RECURSIVE DictSet(_, _, _)
\* dict.setdefault: an existing key keeps its value.
DictSetDefault(d, k, v) ==
  IF \E i \in DOMAIN d : d[i][1] = k THEN d ELSE Append(d, <<k, v>>)

DictSet(d, k, v) ==
  IF d = <<>> THEN << <<k, v>> >>
  ELSE IF Head(d)[1] = k THEN << <<k, v>> >> \o Tail(d)
  ELSE << Head(d) >> \o DictSet(Tail(d), k, v)

DictKeys(d) == {d[i][1] : i \in DOMAIN d}
DictHas(d, k) == k \in DictKeys(d)
DictGet(d, k) == d[CHOOSE i \in DOMAIN d : d[i][1] = k][2]

\* ------------------------------------------------------------ entity objects
\* The entity objects a caller holds (engine.py dataclasses).
Ent == 1 .. 4

Entity(e) ==
  CASE e = 1 -> [cls |-> "StructuralElement", element_type |-> "plate", material |-> TRUE]
    [] e = 2 -> [cls |-> "AcousticSpace", element_type |-> "room", material |-> FALSE]
    [] e = 3 -> [cls |-> "StructuralElement", element_type |-> "plate", material |-> TRUE]
    [] OTHER -> [cls |-> "StructuralElement", element_type |-> "beam", material |-> TRUE]

\* The Junction objects a caller holds.
JunctionPool ==
  { [name |-> "J", junction_type |-> "area", systems |-> <<1, 2, 3>>,
     area |-> Some(Fin(25)), length |-> None, angles |-> None],
    [name |-> "J_0", junction_type |-> "line", systems |-> <<1, 3>>,
     area |-> None, length |-> Some(Fin(30)), angles |-> Some(<<0, 90>>)],
    [name |-> "J_0", junction_type |-> "area", systems |-> <<1, 2>>,
     area |-> Some(Inf), length |-> None, angles |-> None],
    [name |-> "J_0", junction_type |-> "semi_infinite", systems |-> <<2>>,
     area |-> None, length |-> None, angles |-> None] }

\* The Load objects a caller holds; valid: to_pyva_load yields an object.
LoadPool ==
  { [name |-> "L", load_type |-> "power", system_id |-> 1, valid |-> TRUE],
    [name |-> "L", load_type |-> "watts", system_id |-> 2, valid |-> FALSE] }

\* --------------------------------------------------------------- build_model
\* StructuralElement.to_pyva_property: a property object (TRUE) or None.
to_pyva_property(e) == Entity(e).element_type = "plate" /\ Entity(e).material

\* build_model's per-system dispatch: does `system` yield a pyva_sys?
Converts(e) ==
  IF Entity(e).cls = "StructuralElement"
  THEN to_pyva_property(e) /\ system_id[e] # 0 /\ Entity(e).element_type = "plate"
  ELSE system_id[e] # 0

\* The solver-native object made for entity e in build number g.
NativeSystem(e, g) ==
  [native |-> TRUE,
   cls |-> IF Entity(e).cls = "StructuralElement" THEN "RectangularPlate"
           ELSE "RectangularRoom",
   ID |-> system_id[e], of |-> e, gen |-> g]

\* An entity record itself, where build_model hands it on unconverted.
RawEntity(e) ==
  [native |-> FALSE, cls |-> Entity(e).cls, ID |-> system_id[e], of |-> e, gen |-> 0]

InSystems(e) == \E i \in DOMAIN systems : systems[i] = e

\* A conversion loop that gives up at the first system that fails.
RECURSIVE pyva_systems_until_failure(_, _)
pyva_systems_until_failure(ss, g) ==
  IF ss = <<>> \/ ~Converts(Head(ss)) THEN <<>>
  ELSE <<NativeSystem(Head(ss), g)>> \o pyva_systems_until_failure(Tail(ss), g)

\* pyva_systems: the converted systems, in registration order.
RECURSIVE pyva_systems_of(_, _)
pyva_systems_of(ss, g) ==
  IF ss = <<>> THEN <<>>
  ELSE (IF Converts(Head(ss)) THEN <<NativeSystem(Head(ss), g)>> ELSE <<>>)
       \o pyva_systems_of(Tail(ss), g)

\* system_map lookup of a junction participant, with the else branch.
Resolve(e, g) ==
  IF InSystems(e) /\ Converts(e) THEN NativeSystem(e, g) ELSE RawEntity(e)

\* int(junction.area) raises OverflowError on an infinite area.
IntRaises(j) == Truthy(j.area) /\ Val(j.area).inf

\* int(x) truncates; areas are counted in tenths.
IntOf(x) == Fin((x.v \div 10) * 10)

\* con.AreaJunction(systems, area=int(junction.area) if junction.area else None)
AreaJunction(ends, j) ==
  [cls |-> "AreaJunction", systems |-> ends,
   area |-> IF Truthy(j.area) THEN Some(IntOf(Val(j.area))) ELSE None,
   length |-> None, thetas |-> None]

\* A loop that stops one pair early.
PairRangeShort(n) == 0 .. (n - 3)

\* range(len(pyva_sys_objects) - 1)
PairRange(n) == 0 .. (n - 2)

\* A decomposition that couples every participant to the first one.
CouplingsOfStar(jname, j, g) ==
  LET n == Len(j.systems)
      obj(i) == Resolve(j.systems[i], g)
  IN IF n = 2
     THEN << [origin |-> jname, name |-> jname, j |-> j,
              ends |-> <<obj(1), obj(2)>>] >>
     ELSE IF n > 2
     THEN [k \in 1 .. Cardinality(PairRange(n)) |->
             [origin |-> jname, name |-> jname \o "_" \o ToString(k - 1), j |-> j,
              ends |-> <<obj(1), obj(k + 1)>>]]
     ELSE <<>>

\* A decomposition that also registers a coupling for a lone participant.
CouplingsOfSingles(jname, j, g) ==
  LET n == Len(j.systems)
      obj(i) == Resolve(j.systems[i], g)
  IN IF n = 1
     THEN << [origin |-> jname, name |-> jname, j |-> j, ends |-> <<obj(1)>>] >>
     ELSE IF n = 2
     THEN << [origin |-> jname, name |-> jname, j |-> j,
              ends |-> <<obj(1), obj(2)>>] >>
     ELSE [k \in 1 .. Cardinality(PairRange(n)) |->
             [origin |-> jname, name |-> jname \o "_" \o ToString(k - 1), j |-> j,
              ends |-> <<obj(k), obj(k + 1)>>]]

\* logger.warning of the junction loop: only the branch for more than two
\* systems logs.
JunctionWarning(j) == Len(j.systems) > 2

\* The add_junction calls one junction gives rise to, in order.
CouplingsOf(jname, j, g) ==
  LET n == Len(j.systems)
      obj(i) == Resolve(j.systems[i], g)
  IN IF n = 2
     THEN << [origin |-> jname, name |-> jname, j |-> j,
              ends |-> <<obj(1), obj(2)>>] >>
     ELSE IF n > 2
     THEN [k \in 1 .. Cardinality(PairRange(n)) |->
             [origin |-> jname, name |-> jname \o "_" \o ToString(k - 1), j |-> j,
              ends |-> <<obj(k), obj(k + 1)>>]]
     ELSE <<>>

\* All add_junction calls of the junction loop, in dict order.
RECURSIVE Plan(_, _)
Plan(js, g) ==
  IF js = <<>> THEN <<>>
  ELSE CouplingsOf(Head(js)[1], Head(js)[2], g) \o Plan(Tail(js), g)

\* The couplings constructed for the first n entries of the plan.
Constructed(plan, n) ==
  [k \in 1 .. n |-> [origin |-> plan[k].origin, name |-> plan[k].name,
                     c |-> AreaJunction(plan[k].ends, plan[k].j)]]

\* model.add_junction({name: coupling}), call after call.
RECURSIVE Registered(_, _)
Registered(adds, n) ==
  IF n = 0 THEN <<>>
  ELSE DictSet(Registered(adds, n - 1), adds[n].name, adds[n].c)

\* The loads that to_pyva_load converts, as model.add_load(lname, pyva_load).
RECURSIVE NativeLoads(_)
NativeLoads(ls) ==
  IF ls = <<>> THEN <<>>
  ELSE (IF Head(ls)[2].valid THEN << Head(ls) >> ELSE <<>>) \o NativeLoads(Tail(ls))

\* Where the engine raises during one build_model run: nowhere, before the
\* model object exists ("pre"), in the construction of a coupling that is
\* handed an entity record instead of a native system ("junction"), or in
\* add_load ("load").
Faults == {"none", "pre", "junction", "load"}

HasRawEnd(p) == \E i \in DOMAIN p.ends : ~p.ends[i].native

\* The first coupling construction that raises, 0 if none does.
RaiseAt(plan, fault) ==
  LET bad == {k \in DOMAIN plan :
                IntRaises(plan[k].j) \/ (fault = "junction" /\ HasRawEnd(plan[k]))}
  IN IF bad = {} THEN 0 ELSE CHOOSE k \in bad : \A m \in bad : k <= m

\* One run of build_model: return value, new self.model and what it did.
BuildResult(fault) ==
  LET g == nbuild + 1
      ps == pyva_systems_of(systems, g)
      plan == Plan(junctions, g)
      stop == RaiseAt(plan, fault)
      nreg == IF stop = 0 THEN Len(plan) ELSE stop - 1
      adds == Constructed(plan, nreg)
      nl == NativeLoads(loads)
      loadRaises == fault = "load" /\ nl # <<>>
      hm == [systems |-> ps, junctions |-> Registered(adds, nreg),
             loads |-> IF stop = 0 /\ ~loadRaises THEN nl ELSE <<>>,
             gen |-> g, solved |-> FALSE,
             complete |-> stop = 0 /\ ~loadRaises]
      none == [ok |-> FALSE, model |-> model, adds |-> <<>>, converted |-> <<>>,
               raised |-> FALSE]
  IN IF ~pyva_available THEN none
     ELSE IF fault = "pre" THEN [none EXCEPT !.raised = TRUE]
     ELSE IF ps = <<>> THEN none
     ELSE [ok |-> hm.complete, model |-> Some(hm), adds |-> adds,
           converted |-> ps, raised |-> ~hm.complete]

\* A fault that has a place to happen in the present state.
FaultApplies(fault) ==
  CASE fault = "junction" ->
         /\ pyva_available /\ pyva_systems_of(systems, 0) # <<>>
         /\ RaiseAt(Plan(junctions, 0), fault) # RaiseAt(Plan(junctions, 0), "none")
    [] fault = "load" ->
         /\ pyva_available /\ pyva_systems_of(systems, 0) # <<>>
         /\ RaiseAt(Plan(junctions, 0), fault) = 0
         /\ NativeLoads(loads) # <<>>
    [] fault = "pre" -> pyva_available
    [] OTHER -> TRUE

\* The record of a call: what it returned (ok), whether build_model ran in it
\* (built), returned True (buildOk) or caught an exception (raised), the
\* add_junction calls made (adds), the solver-native systems (converted),
\* self.model before the call, and whether the solver was invoked (ran).
\* Registrations leave it blank, or log their argument (arg) when logs is set.
Quiet == [op |-> "none", ok |-> TRUE, built |-> FALSE, buildOk |-> FALSE,
          raised |-> FALSE, adds |-> <<>>, converted |-> <<>>,
          before |-> None, ran |-> FALSE, arg |-> None]

\* ------------------------------------------------------------------ actions
EngineInit ==
  /\ systems = <<>>
  /\ system_id = [e \in Ent |-> 0]
  /\ counter = 0
  /\ junctions = <<>>
  /\ loads = <<>>
  /\ model = None
  /\ pyva_available \in BOOLEAN
  /\ logs \in BOOLEAN
  /\ nbuild = 0
  /\ returned = 0
  /\ last = Quiet

\* A counter that is read before it is advanced.
NextIdStale(c) == c

\* The id the registration hands out.
NextId(c) == c + 1

\* Callers register an entity object once (registering it again is outside
\* the contract of the registry).
RegisterSystem(e) ==
  /\ Len(systems) < MaxSystems
  /\ ~InSystems(e)
  /\ counter' = NextId(counter)
  /\ system_id' = [system_id EXCEPT ![e] = counter']
  /\ systems' = Append(systems, e)
  /\ returned' = counter'
  /\ last' = Quiet
  /\ UNCHANGED <<junctions, loads, model, pyva_available, logs, nbuild, postVars, projectVars>>

add_structural_element ==
  \E e \in Ent : Entity(e).cls = "StructuralElement" /\ RegisterSystem(e)

add_acoustic_space ==
  \E e \in Ent : Entity(e).cls = "AcousticSpace" /\ RegisterSystem(e)

\* The name arguments callers pass to add_junction (None: the default).
NameArgs == {None}

add_junction ==
  \E j \in JunctionPool, name \in NameArgs :
    LET junction_name == IF name # None THEN Val(name) ELSE j.name
    IN /\ junctions' = DictSet(junctions, junction_name, j)
       /\ last' = IF logs
                  THEN [Quiet EXCEPT !.op = "add_junction", !.arg = Some(j)]
                  ELSE Quiet
       /\ UNCHANGED <<systems, system_id, counter, loads, model,
                      pyva_available, logs, nbuild, returned, postVars, projectVars>>

\* The loads the caller registers: the caller whose registrations are logged
\* also re-registers the name L with another load.
LoadsHeld == IF logs THEN LoadPool ELSE {l \in LoadPool : l.valid}

add_load ==
  \E l \in LoadsHeld :
    /\ loads' = DictSet(loads, l.name, l)
    /\ last' = IF logs
               THEN [Quiet EXCEPT !.op = "add_load", !.arg = Some(l)]
               ELSE Quiet
    /\ UNCHANGED <<systems, system_id, counter, junctions, model,
                   pyva_available, logs, nbuild, returned, postVars, projectVars>>

\* A build that restarts the id counter at the number of converted systems.
build_model_recounting ==
  \E fault \in Faults :
    /\ nbuild < MaxBuilds
    /\ FaultApplies(fault)
    /\ LET r == BuildResult(fault)
       IN /\ model' = r.model
          /\ counter' = Len(r.converted)
          /\ last' = [Quiet EXCEPT !.op = "build_model", !.ok = r.ok,
                        !.built = TRUE, !.buildOk = r.ok, !.raised = r.raised,
                        !.adds = r.adds, !.converted = r.converted,
                        !.before = model]
    /\ nbuild' = nbuild + 1
    /\ UNCHANGED <<systems, system_id, junctions, loads,
                   pyva_available, logs, returned, postVars, projectVars>>

\* A build that adds the new systems to those of the model already held.
build_model_adding ==
  \E fault \in Faults :
    /\ nbuild < MaxBuilds
    /\ FaultApplies(fault)
    /\ LET r == BuildResult(fault)
       IN /\ model' = IF r.model # None /\ model # None /\ r.model # model
                      THEN Some([Val(r.model) EXCEPT
                                   !.systems = Val(model).systems \o @])
                      ELSE r.model
          /\ last' = [Quiet EXCEPT !.op = "build_model", !.ok = r.ok,
                        !.built = TRUE, !.buildOk = r.ok, !.raised = r.raised,
                        !.adds = r.adds, !.converted = r.converted,
                        !.before = model]
    /\ nbuild' = nbuild + 1
    /\ UNCHANGED <<systems, system_id, counter, junctions, loads,
                   pyva_available, logs, returned, postVars, projectVars>>

build_model ==
  \E fault \in Faults :
    /\ nbuild < MaxBuilds
    /\ FaultApplies(fault)
    /\ LET r == BuildResult(fault)
       IN /\ model' = r.model
          /\ last' = [Quiet EXCEPT !.op = "build_model", !.ok = r.ok,
                        !.built = TRUE, !.buildOk = r.ok, !.raised = r.raised,
                        !.adds = r.adds, !.converted = r.converted,
                        !.before = model]
    /\ nbuild' = nbuild + 1
    /\ UNCHANGED <<systems, system_id, counter, junctions, loads,
                   pyva_available, logs, returned, postVars, projectVars>>

\* A solve that hands the model to the solver whatever the build returned.
solve_after_any_build ==
  \E fault \in Faults, solverRaises \in BOOLEAN :
    LET needs == ~(model # None)
        r == IF needs THEN BuildResult(fault)
             ELSE [ok |-> TRUE, model |-> model, adds |-> <<>>, converted |-> <<>>,
                   raised |-> FALSE]
        runs == TRUE
    IN /\ needs => (nbuild < MaxBuilds /\ FaultApplies(fault))
       /\ ~needs => fault = "none"
       /\ model' = IF ~solverRaises /\ r.model # None
                   THEN Some([Val(r.model) EXCEPT !.solved = TRUE])
                   ELSE r.model
       /\ nbuild' = IF needs THEN nbuild + 1 ELSE nbuild
       /\ last' = [Quiet EXCEPT !.op = "solve", !.ok = runs /\ ~solverRaises,
                     !.built = needs, !.buildOk = needs /\ r.ok,
                     !.raised = r.raised, !.adds = r.adds,
                     !.converted = r.converted, !.before = model, !.ran = runs]
       /\ UNCHANGED <<systems, system_id, counter, junctions, loads,
                      pyva_available, logs, returned, postVars, projectVars>>

\* solve(): builds first when there is no model; the solver may raise.
solve ==
  \E fault \in Faults, solverRaises \in BOOLEAN :
    LET needs == ~(model # None)
        r == IF needs THEN BuildResult(fault)
             ELSE [ok |-> TRUE, model |-> model, adds |-> <<>>, converted |-> <<>>,
                   raised |-> FALSE]
        runs == r.ok
    IN /\ needs => (nbuild < MaxBuilds /\ FaultApplies(fault))
       /\ ~needs => fault = "none"
       /\ ~runs => ~solverRaises
       /\ model' = IF runs /\ ~solverRaises
                   THEN Some([Val(r.model) EXCEPT !.solved = TRUE])
                   ELSE r.model
       /\ nbuild' = IF needs THEN nbuild + 1 ELSE nbuild
       /\ last' = [Quiet EXCEPT !.op = "solve", !.ok = runs /\ ~solverRaises,
                     !.built = needs, !.buildOk = needs /\ r.ok,
                     !.raised = r.raised, !.adds = r.adds,
                     !.converted = r.converted, !.before = model, !.ran = runs]
       /\ UNCHANGED <<systems, system_id, counter, junctions, loads,
                      pyva_available, logs, returned, postVars, projectVars>>

EngineNext ==
  \/ add_structural_element
  \/ add_acoustic_space
  \/ add_junction
  \/ add_load
  \/ build_model
  \/ solve


\* ============================================================ PostTreatment
\* A Python number: int, float or complex.  Frequencies are counted in
\* thousandths (of rad/s, of Hz).
IntNum(v) == [t |-> "int", re |-> v, im |-> 0]
Flt(v) == [t |-> "float", re |-> v, im |-> 0]
Cpx(a, b) == [t |-> "complex", re |-> a, im |-> b]

\* float(x), int(x) and x.real
float(x) == Flt(x.re)
int(x) == IntNum(x.re)
real(x) == IF x.t = "int" THEN x ELSE Flt(x.re)

\* Arrays and nested lists, with their number of dimensions.
Arr1(xs) == [nd |-> 1, a |-> xs]
Arr2(rows) == [nd |-> 2, a |-> rows]
Arr3(mats) == [nd |-> 3, a |-> mats]

MapSeq(f(_), xs) == [i \in DOMAIN xs |-> f(xs[i])]

MapArr(f(_), arr) ==
  LET row(r) == MapSeq(f, r)
      mat(m) == MapSeq(row, m)
  IN CASE arr.nd = 1 -> [arr EXCEPT !.a = row(arr.a)]
       [] arr.nd = 2 -> [arr EXCEPT !.a = mat(arr.a)]
       [] OTHER -> [arr EXCEPT !.a = MapSeq(mat, arr.a)]

Kilo == 1000
Mega == 1000000
TwoPiMilli == 6283

\* None where a number is expected (an element of an object array).
Missing == [t |-> "NoneType", re |-> 0, im |-> 0]

\* data * 1000.0 on an array gives a new float array.
Scaled(arr, k) == LET times(x) == Flt(x.re * k) IN MapArr(times, arr)

\* freq_rad / (2 * np.pi)
DivTwoPi(x) == Flt((x.re * Kilo) \div TwoPiMilli)

\* --- the solved models handed to process_model (what the engine exposes)
NoDims == [Lx |-> None, Ly |-> None, Lz |-> None, volume |-> None, area |-> None]

SolverSystem(cls, dims, material, wave, md, mo) ==
  [cls |-> cls, dims |-> dims, material |-> material, wave |-> wave,
   md |-> md, mo |-> mo]

SolvedModel ==
  [xdata |-> Some(<<Flt(6283), Flt(12566)>>),
   systems |-> << <<1, SolverSystem("RectangularPlate",
                         [NoDims EXCEPT !.Lx = Some(Flt(2)), !.area = Some(Flt(4))],
                         Some([type |-> "IsoMat", density |-> Some(Flt(7800)),
                               youngs_modulus |-> Some(Flt(210))]),
                         Some(<<3>>), Some(Flt(5)), Some(Flt(1)))>>,
                  <<2, SolverSystem("RectangularRoom",
                         [NoDims EXCEPT !.volume = Some(Flt(8))],
                         None, Some(<<0>>), Some(Flt(9)), None)>> >>,
   junctions |-> << <<"J", [cls |-> "AreaJunction", systems |-> Some(<<1, 2>>),
                            area |-> Some(Flt(2)), length |-> None,
                            thetas |-> None,
                            clf |-> Some(Arr2(<< <<Cpx(1, 1)>> >>)),
                            raises |-> FALSE]>> >>,
   energy |-> Some([ydata |-> Arr2(<< <<Flt(1), Flt(2)>>, <<Flt(3), Flt(4)>> >>),
                    ID |-> Some(<<IntNum(1), IntNum(2)>>), DOF |-> Some(<<IntNum(3), IntNum(0)>>)]),
   result |-> Some([ydata |-> Arr2(<< <<Flt(1), Flt(2)>>, <<Flt(3), Flt(4)>> >>),
                    ID |-> Some(<<IntNum(1), IntNum(2)>>), DOF |-> Some(<<IntNum(7), IntNum(0)>>)]),
   power_input |-> Some([ydata |-> Arr1(<<Flt(5), Flt(6)>>),
                         ID |-> Some(<<IntNum(1)>>), DOF |-> Some(<<IntNum(3)>>)]),
   SEAmatrix |-> Some(Arr3(<< << <<Cpx(7, 1)>> >>, << <<Cpx(8, 0)>> >> >>)),
   loads |-> << <<"L", [DOF |-> Some("DOF(1,3)"),
                        spectrum |-> Some(<<Flt(1), Flt(1)>>)]>> >>]

\* A coupling of the solver; raises: reading its coupling_loss_factor raises
\* (the engine computes it on access).
SolverJunction(cls, length, raises) ==
  [cls |-> cls, systems |-> Some(<<3, 3>>), area |-> None, length |-> length,
   thetas |-> None, clf |-> None, raises |-> raises]

\* An assembled model that was not solved: no result objects, and the loss
\* factor of its second coupling cannot be computed.
UnsolvedModel ==
  [xdata |-> Some(<<Flt(3141)>>),
   systems |-> << <<3, SolverSystem("Beam", NoDims, None, None, None, None)>> >>,
   junctions |-> << <<"J1", SolverJunction("LineJunction", Some(Flt(1)), FALSE)>>,
                    <<"J2", SolverJunction("AreaJunction", None, TRUE)>>,
                    <<"J3", SolverJunction("LineJunction", Some(Flt(2)), FALSE)>> >>,
   energy |-> None, result |-> None, power_input |-> None, SEAmatrix |-> None,
   loads |-> <<>>]

\* A solved model whose energy and response arrays are 1-D (one value per
\* DOF) and whose power array is 2-D.
FlatModel ==
  [xdata |-> Some(<<Flt(6283)>>),
   systems |-> << <<1, SolverSystem("RectangularPlate", NoDims, None,
                                    Some(<<3>>), Some(Flt(5)), Some(Flt(1)))>> >>,
   junctions |-> <<>>,
   energy |-> Some([ydata |-> Arr1(<<Flt(2)>>), ID |-> Some(<<IntNum(1)>>),
                    DOF |-> Some(<<IntNum(3)>>)]),
   result |-> Some([ydata |-> Arr1(<<Flt(3)>>), ID |-> Some(<<IntNum(1)>>),
                    DOF |-> Some(<<IntNum(7)>>)]),
   power_input |-> Some([ydata |-> Arr2(<< <<Flt(3)>> >>), ID |-> Some(<<IntNum(1)>>),
                         DOF |-> Some(<<IntNum(3)>>)]),
   SEAmatrix |-> None,
   loads |-> <<>>]

\* A model without a frequency axis: model.xdata raises AttributeError.
BrokenModel ==
  [xdata |-> None,
   systems |-> << <<1, SolverSystem("RectangularPlate", NoDims, None,
                                    Some(<<3>>), None, None)>> >>,
   junctions |-> <<>>,
   energy |-> Some([ydata |-> Arr2(<< <<Flt(9)>> >>), ID |-> Some(<<IntNum(1)>>),
                    DOF |-> Some(<<IntNum(3)>>)]),
   result |-> None, power_input |-> None, SEAmatrix |-> None,
   loads |-> <<>>]

\* A model whose frequency axis has a sample that is not a number: the axis
\* converts to a list, but its division by 2*pi raises TypeError.
GappedModel ==
  [xdata |-> Some(<<Flt(6283), Missing, Flt(18849)>>),
   systems |-> << <<1, SolverSystem("RectangularPlate", NoDims, None,
                                    Some(<<3>>), None, None)>> >>,
   junctions |-> <<>>,
   energy |-> None, result |-> None, power_input |-> None, SEAmatrix |-> None,
   loads |-> <<>>]

SolverModels == {SolvedModel, UnsolvedModel, FlatModel, BrokenModel, GappedModel}

ModelNames == {"solved", "unsolved", "flat", "broken", "gapped"}

\* The model a name stands for, as the solver left it.
Original(n) ==
  CASE n = "solved" -> SolvedModel
    [] n = "unsolved" -> UnsolvedModel
    [] n = "flat" -> FlatModel
    [] n = "gapped" -> GappedModel
    [] OTHER -> BrokenModel

\* The arrays of a model that live in the solver's memory.
ArraysOf(m) ==
  LET ydata(o) == IF o = None THEN None ELSE Some(Val(o).ydata)
  IN [energy |-> ydata(m.energy), result |-> ydata(m.result),
      power_input |-> ydata(m.power_input)]

\* The model named n with the arrays as they are now.
ModelWith(n, arrs) ==
  LET o == Original(n)
      put(sig, y) == IF sig = None THEN None ELSE Some([Val(sig) EXCEPT !.ydata = Val(y)])
  IN [o EXCEPT !.energy = put(o.energy, arrs.energy),
               !.result = put(o.result, arrs.result),
               !.power_input = put(o.power_input, arrs.power_input)]

\* np.asarray(x): a view that shares the memory of x.
np_asarray(x) == [own |-> FALSE, arr |-> x]

\* np.array(x): a copy of x (copy=True is the default).
np_array(x) == [own |-> TRUE, arr |-> x]

\* --- ResultData
EmptyBundle(project_name) ==
  [project_name |-> project_name, analysis_type |-> "SEA", export_format |-> "1.0",
   frequency_hz |-> <<>>, frequency_rad |-> <<>>,
   systems |-> <<>>, modal_data |-> <<>>, junctions |-> <<>>,
   energy |-> <<>>, result |-> <<>>, power_input |-> <<>>,
   sea_matrix |-> None, loads |-> <<>>, units |-> <<>>]

\* --- the extraction steps of process_model; each returns the bundle it leaves
_extract_frequency(b, m) ==
  IF m.xdata = None THEN b
  ELSE IF \E i \in DOMAIN Val(m.xdata) : Val(m.xdata)[i] = Missing
  THEN [b EXCEPT !.frequency_rad = Val(m.xdata)]
  ELSE [b EXCEPT !.frequency_rad = Val(m.xdata),
                 !.frequency_hz = MapSeq(DivTwoPi, Val(m.xdata))]

SysInfo(sys_id, sys) ==
  [id |-> sys_id, type |-> sys.cls, Lx |-> sys.dims.Lx, Ly |-> sys.dims.Ly,
   Lz |-> sys.dims.Lz, volume |-> sys.dims.volume, area |-> sys.dims.area,
   material |-> sys.material]

RECURSIVE _extract_systems(_, _)
_extract_systems(d, ss) ==
  IF ss = <<>> THEN d
  ELSE _extract_systems(DictSet(d, ToString(Head(ss)[1]),
                                SysInfo(Head(ss)[1], Head(ss)[2])), Tail(ss))

\* _get_system_type
_get_system_type(cls) ==
  CASE cls \in {"RectangularPlate"} -> "plate"
    [] cls \in {"Beam"} -> "beam"
    [] cls \in {"RectangularRoom"} -> "cavity"
    [] OTHER -> "structural"

ModalKey(sys_id, wave_type) ==
  "sys" \o ToString(sys_id) \o "_wave" \o ToString(wave_type)

\* The datasets of one system: one per wave type, if it has modal_density.
RECURSIVE ModalOfSystem(_, _, _, _, _)
ModalOfSystem(d, sys_id, sys, waves, b) ==
  IF waves = <<>> \/ sys.md = None THEN d
  ELSE LET wt == Head(waves)
           md == [i \in DOMAIN b.frequency_rad |-> Val(sys.md)]
           mo == IF sys.mo # None
                 THEN [i \in DOMAIN b.frequency_rad |-> Val(sys.mo)]
                 ELSE [i \in DOMAIN md |-> Flt(0)]
       IN ModalOfSystem(
            DictSet(d, ModalKey(sys_id, wt),
                    [system_id |-> sys_id, system_name |-> sys.cls,
                     system_type |-> _get_system_type(sys.cls), wave_type |-> wt,
                     modal_density |-> md, modal_overlap |-> mo,
                     frequency |-> b.frequency_hz]),
            sys_id, sys, Tail(waves), b)

RECURSIVE _extract_modal_data(_, _, _)
_extract_modal_data(d, ss, b) ==
  IF ss = <<>> THEN d
  ELSE LET sys == Head(ss)[2]
           waves == IF sys.wave # None THEN Val(sys.wave) ELSE <<3>>
       IN _extract_modal_data(ModalOfSystem(d, Head(ss)[1], sys, waves, b),
                              Tail(ss), b)

\* bool(x) of an optional number: None and 0 are falsy.
TruthyNum(o) == o # None /\ Val(o).re # 0

JunctionDataOf(jname, junc) ==
  [junction_name |-> jname, junction_type |-> junc.cls,
   system1_id |-> IF junc.systems # None /\ Len(Val(junc.systems)) >= 2
                  THEN Val(junc.systems)[1] ELSE 0,
   system2_id |-> IF junc.systems # None /\ Len(Val(junc.systems)) >= 2
                  THEN Val(junc.systems)[2] ELSE 0,
   area |-> IF TruthyNum(junc.area) THEN Some(float(Val(junc.area))) ELSE None,
   length |-> IF TruthyNum(junc.length) THEN Some(float(Val(junc.length))) ELSE None,
   angles |-> IF junc.thetas # None /\ Val(junc.thetas) # <<>>
              THEN Some(MapSeq(float, Val(junc.thetas))) ELSE None,
   coupling_loss_factor |-> IF junc.clf # None
                            THEN Some(MapArr(real, Val(junc.clf))) ELSE None]

\* The loop of _extract_junctions: the try encloses the loop, so the first
\* coupling whose reading raises ends it, before its own record is stored.
RECURSIVE _extract_junctions(_, _)
_extract_junctions(d, js) ==
  IF js = <<>> \/ Head(js)[2].raises THEN d
  ELSE _extract_junctions(DictSet(d, Head(js)[1],
                                  JunctionDataOf(Head(js)[1], Head(js)[2])),
                          Tail(js))

\* The factor _convert_energy / _convert_power / _convert_result_data apply.
\* A conversion that scales the milli case a second time.
ConvertEnergyTwice(data, u) ==
  IF u["energy"] = "mJ" THEN Scaled(Scaled(data, Kilo), Kilo)
  ELSE IF u["energy"] = "uJ" THEN Scaled(data, Mega)
  ELSE data

_convert_energy(data, u) ==
  IF u["energy"] = "mJ" THEN Scaled(data, Kilo)
  ELSE IF u["energy"] = "uJ" THEN Scaled(data, Mega)
  ELSE data

_convert_power(data, u) ==
  IF u["power"] = "mW" THEN Scaled(data, Kilo)
  ELSE IF u["power"] = "uW" THEN Scaled(data, Mega)
  ELSE data

ListOr(o) == IF o # None THEN Val(o) ELSE <<>>

_extract_energy(b, m, u) ==
  IF m.energy = None THEN b
  ELSE [b EXCEPT !.energy =
          Some([data |-> _convert_energy(Val(m.energy).ydata, u),
                dof_id |-> ListOr(Val(m.energy).ID),
                dof_type |-> ListOr(Val(m.energy).DOF)])]

\* data[:, i] *= k on column i (1-based here) of a 2-D array.
ScaleColumn(arr, i, k) ==
  [arr EXCEPT !.a = [r \in DOMAIN arr.a |->
                       [c \in DOMAIN arr.a[r] |->
                          IF c = i THEN Flt(arr.a[r][c].re * k) ELSE arr.a[r][c]]]]

\* data[:, i] raises IndexError on a 1-D array or a missing column.
ColumnExists(arr, i) ==
  arr.nd = 2 /\ (arr.a = <<>> \/ i \in DOMAIN arr.a[1])

VelocityFactor(u) ==
  IF u["velocity"] = "mm/s" THEN Kilo
  ELSE IF u["velocity"] = "um/s" THEN Mega
  ELSE 1

\* The loop of _convert_result_data from DOF column i on; the bare except
\* returns the array as far as it was converted.
RECURSIVE _convert_result_data(_, _, _, _)
_convert_result_data(data, dof_types, i, u) ==
  IF i > Len(dof_types) THEN data
  ELSE IF dof_types[i].re = 7 /\ VelocityFactor(u) # 1
  THEN IF ColumnExists(data, i)
       THEN _convert_result_data(ScaleColumn(data, i, VelocityFactor(u)),
                                 dof_types, i + 1, u)
       ELSE data
  ELSE _convert_result_data(data, dof_types, i + 1, u)

_extract_result(b, m, u) ==
  IF m.result = None THEN b
  ELSE [b EXCEPT !.result =
          Some([data |-> _convert_result_data(np_array(Val(m.result).ydata).arr,
                                              ListOr(Val(m.result).DOF), 1, u),
                dof_id |-> ListOr(Val(m.result).ID),
                dof_type |-> ListOr(Val(m.result).DOF)])]

_extract_power_input(b, m, u) ==
  IF m.power_input = None THEN b
  ELSE [b EXCEPT !.power_input =
          Some([data |-> _convert_power(Val(m.power_input).ydata, u),
                dof_id |-> ListOr(Val(m.power_input).ID)])]

_extract_sea_matrix(b, m) ==
  IF m.SEAmatrix = None THEN b
  ELSE [b EXCEPT !.sea_matrix =
          Some([matrix |-> MapArr(real, Val(m.SEAmatrix)),
                frequency |-> b.frequency_hz,
                system_ids |-> [i \in DOMAIN m.systems |-> m.systems[i][1]],
                system_types |-> [i \in DOMAIN m.systems |-> m.systems[i][2].cls]])]

RECURSIVE _extract_loads(_, _)
_extract_loads(d, ls) ==
  IF ls = <<>> THEN d
  ELSE _extract_loads(
         DictSet(d, Head(ls)[1],
                 [name |-> Head(ls)[1],
                  type |-> IF Head(ls)[2].DOF # None THEN Val(Head(ls)[2].DOF)
                           ELSE "unknown",
                  spectrum |-> Head(ls)[2].spectrum]),
         Tail(ls))

\* The solver's model after the extraction: data[:, i] *= k writes into
\* result.ydata exactly when data shares its memory.
AfterExtraction(m, u) ==
  IF m.result = None THEN m
  ELSE LET data == np_array(Val(m.result).ydata)
           conv == _convert_result_data(data.arr, ListOr(Val(m.result).DOF), 1, u)
       IN IF data.own THEN m
          ELSE [m EXCEPT !.result = Some([Val(m.result) EXCEPT !.ydata = conv])]

\* The nine steps of process_model, in order, on the bundle b.
Extracted(b, m, u) ==
  LET b1 == _extract_frequency(b, m)
      b2 == [b1 EXCEPT !.systems = _extract_systems(b1.systems, m.systems)]
      b3 == [b2 EXCEPT !.modal_data =
                         _extract_modal_data(b2.modal_data, m.systems, b2)]
      b4 == [b3 EXCEPT !.junctions = _extract_junctions(b3.junctions, m.junctions)]
      b5 == _extract_energy(b4, m, u)
      b6 == _extract_result(b5, m, u)
      b7 == _extract_power_input(b6, m, u)
      b8 == _extract_sea_matrix(b7, m)
  IN [b8 EXCEPT !.loads = _extract_loads(b8.loads, m.loads)]

\* --- units
Quantities == {"energy", "power", "velocity", "pressure", "length", "area"}

\* valid_units of set_units
valid_units(key) ==
  CASE key = "energy" -> {"J", "mJ", "uJ"}
    [] key = "power" -> {"W", "mW", "uW"}
    [] key = "velocity" -> {"m/s", "mm/s", "um/s"}
    [] key = "pressure" -> {"Pa", "uPa"}
    [] key = "length" -> {"m", "mm", "um"}
    [] key = "area" -> {"m2", "cm2", "mm2"}
    [] OTHER -> {}

\* An assignment without the membership test.
SetUnitUnchecked(u, key, value) ==
  IF key \in Quantities THEN [u EXCEPT ![key] = value] ELSE u

\* One turn of the loop of set_units.
SetUnit(u, key, value) ==
  IF key \in Quantities /\ value \in valid_units(key)
  THEN [u EXCEPT ![key] = value]
  ELSE u

RECURSIVE SetUnits(_, _)
SetUnits(u, kw) ==
  IF kw = <<>> THEN u
  ELSE SetUnits(SetUnit(u, Head(kw)[1], Head(kw)[2]), Tail(kw))

\* The keyword arguments callers pass to set_units.
KwArgs ==
  { << <<"energy", "uJ">> >>,
    << <<"energy", "kJ">> >>,
    << <<"power", "mW">>, <<"velocity", "knots">> >>,
    << <<"temperature", "K">>, <<"pressure", "uPa">> >>,
    << <<"velocity", "um/s">>, <<"power", "J">> >> }

\* The (energy_unit, power_unit, velocity_unit) arguments of process_model;
\* the first are the defaults.
UnitArgs ==
  { <<"mJ", "mW", "mm/s">>, <<"J", "W", "m/s">>, <<"uJ", "uW", "um/s">>,
    <<"kJ", "kW", "km/s">> }

\* --- ResultData.to_dict and export_json
\* [[float(x) for x in row] for row in data] needs a 2-D list,
\* [float(x) for x in data] a 1-D one; otherwise TypeError.
BlockRaises(block, nd) == block # None /\ Val(block).data.nd # nd

ToDictRaises(b) ==
  BlockRaises(b.energy, 2) \/ BlockRaises(b.result, 2) \/ BlockRaises(b.power_input, 1)

BlockToDict(block) ==
  IF block = None THEN None
  ELSE Some([data |-> MapArr(float, Val(block).data),
             dof_id |-> MapSeq(int, Val(block).dof_id),
             dof_type |-> MapSeq(int, Val(block).dof_type)])

PowerToDict(block) ==
  IF block = None THEN None
  ELSE Some([data |-> MapArr(float, Val(block).data),
             dof_id |-> MapSeq(int, Val(block).dof_id)])

\* SEAMatrixData.to_dict
SeaMatrixToDict(sm) ==
  LET fr(x) == float(real(x))
  IN [matrix |-> MapArr(fr, sm.matrix),
      frequency |-> MapSeq(float, sm.frequency),
      system_ids |-> sm.system_ids,
      system_types |-> sm.system_types]

to_dict(b) ==
  [metadata |-> [project_name |-> b.project_name,
                 analysis_type |-> b.analysis_type,
                 export_format |-> b.export_format,
                 units |-> b.units],
   frequency |-> [hz |-> MapSeq(float, b.frequency_hz),
                  rad_s |-> MapSeq(float, b.frequency_rad)],
   systems |-> b.systems,
   modal_data |-> b.modal_data,
   junctions |-> b.junctions,
   loads |-> b.loads,
   energy |-> BlockToDict(b.energy),
   result |-> BlockToDict(b.result),
   power_input |-> PowerToDict(b.power_input),
   sea_matrix |-> IF b.sea_matrix = None THEN None
                  ELSE Some(SeaMatrixToDict(Val(b.sea_matrix)))]

\* A loader that forgets the response block.
LoadJsonNoResult(doc) ==
  [EmptyBundle(doc.metadata.project_name) EXCEPT
     !.frequency_hz = doc.frequency.hz,
     !.frequency_rad = doc.frequency.rad_s,
     !.systems = doc.systems,
     !.modal_data = doc.modal_data,
     !.junctions = doc.junctions,
     !.energy = doc.energy,
     !.sea_matrix = doc.sea_matrix]

\* _load_json
_load_json(doc) ==
  [EmptyBundle(doc.metadata.project_name) EXCEPT
     !.frequency_hz = doc.frequency.hz,
     !.frequency_rad = doc.frequency.rad_s,
     !.systems = doc.systems,
     !.modal_data = doc.modal_data,
     !.junctions = doc.junctions,
     !.energy = doc.energy,
     !.result = doc.result,
     !.sea_matrix = doc.sea_matrix]

\* --- export_hdf5 and _load_hdf5
\* The numbers of an array or nested list.
ElemsOf(arr) ==
  CASE arr.nd = 1 -> {arr.a[i] : i \in DOMAIN arr.a}
    [] arr.nd = 2 -> UNION {{arr.a[i][j] : j \in DOMAIN arr.a[i]} : i \in DOMAIN arr.a}
    [] OTHER -> UNION {UNION {{arr.a[i][j][k] : k \in DOMAIN arr.a[i][j]} :
                                j \in DOMAIN arr.a[i]} : i \in DOMAIN arr.a}

\* np.array(list): every element takes the widest type found in the list.
np_array_of(arr) ==
  LET ts == {x.t : x \in ElemsOf(arr)}
      t == IF "complex" \in ts THEN "complex"
           ELSE IF "int" \in ts /\ "float" \notin ts THEN "int"
           ELSE "float"
      cast(x) == [t |-> t, re |-> x.re, im |-> x.im]
  IN MapArr(cast, arr)

\* np.array(list) of a flat list, and back with tolist().
np_list(xs) == np_array_of(Arr1(xs)).a

\* Only int, float and str values become attributes of a system's group.
HdfAttrs(info) == [info EXCEPT !.material = None]

HdfModal(md) ==
  [modal_density |-> np_list(md.modal_density),
   modal_overlap |-> np_list(md.modal_overlap),
   frequency |-> np_list(md.frequency),
   system_id |-> md.system_id, wave_type |-> md.wave_type]

\* The groups, attributes and datasets export_hdf5 writes.
HdfDoc(b, u) ==
  [metadata |-> [project_name |-> b.project_name,
                 analysis_type |-> b.analysis_type,
                 export_format |-> b.export_format],
   units |-> u,
   frequency |-> [hz |-> np_list(b.frequency_hz),
                  rad_s |-> np_list(b.frequency_rad)],
   systems |-> [i \in DOMAIN b.systems |->
                  <<b.systems[i][1], HdfAttrs(b.systems[i][2])>>],
   modal_data |-> [i \in DOMAIN b.modal_data |->
                     <<b.modal_data[i][1], HdfModal(b.modal_data[i][2])>>],
   energy |-> IF b.energy = None THEN None
              ELSE Some([data |-> np_array_of(Val(b.energy).data),
                         dof_id |-> np_list(Val(b.energy).dof_id),
                         dof_type |-> np_list(Val(b.energy).dof_type)]),
   sea_matrix |-> IF b.sea_matrix = None THEN None
                  ELSE Some([matrix |-> np_array_of(Val(b.sea_matrix).matrix),
                             frequency |-> np_list(Val(b.sea_matrix).frequency),
                             system_ids |-> Val(b.sea_matrix).system_ids])]

\* _load_hdf5.  system_types is filled from the system_ids dataset; the ids
\* are written as text here so that the column stays a list of strings.
_load_hdf5(doc) ==
  [EmptyBundle(doc.metadata.project_name) EXCEPT
     !.frequency_hz = doc.frequency.hz,
     !.frequency_rad = doc.frequency.rad_s,
     !.systems = doc.systems,
     !.modal_data = [i \in DOMAIN doc.modal_data |->
                       LET g == doc.modal_data[i][2]
                       IN <<doc.modal_data[i][1],
                            [system_id |-> g.system_id, system_name |-> "",
                             system_type |-> "", wave_type |-> g.wave_type,
                             modal_density |-> g.modal_density,
                             modal_overlap |-> g.modal_overlap,
                             frequency |-> g.frequency]>>],
     !.energy = doc.energy,
     !.sea_matrix = IF doc.sea_matrix = None THEN None
                    ELSE LET sea == Val(doc.sea_matrix)
                         IN Some([matrix |-> sea.matrix,
                                  frequency |-> sea.frequency,
                                  system_ids |-> sea.system_ids,
                                  system_types |-> [i \in DOMAIN sea.system_ids |->
                                                      ToString(sea.system_ids[i])]])]

\* --- file paths, as the sequence of their pieces: "run.h5data.hdf5" is
\* <<"run", ".h5", "data", ".hdf5">>
JsonPaths == { <<"results", ".json">> }
H5Paths == { <<"results", ".h5">>, <<"run", ".h5", "data", ".hdf5">> }

\* Path.suffix
suffix(path) == path[Len(path)]

\* str.replace(old, new): every occurrence changes.
replace(path, old, new) == [i \in DOMAIN path |-> IF path[i] = old THEN new ELSE path[i]]

\* --- a bundle put together by a caller (ResultData is a plain dataclass)
HandMadeBundle ==
  [project_name |-> "Demo", analysis_type |-> "Hybrid", export_format |-> "1.0",
   frequency_hz |-> <<IntNum(100), IntNum(125), IntNum(160)>>,
   frequency_rad |-> <<Flt(628), Flt(785), Flt(1005)>>,
   systems |-> <<>>,
   modal_data |-> << <<"sys1_wave3",
                       [system_id |-> 1, system_name |-> "RectangularPlate",
                        system_type |-> "plate", wave_type |-> 3,
                        modal_density |-> <<Flt(1), Flt(2), Flt(3)>>,
                        modal_overlap |-> <<Flt(4), Flt(5), Flt(6)>>,
                        frequency |-> <<IntNum(100), IntNum(125), IntNum(160)>>]>> >>,
   junctions |-> << <<"J", [junction_name |-> "J", junction_type |-> "LineJunction",
                            system1_id |-> 1, system2_id |-> 2, area |-> None,
                            length |-> Some(Flt(3)),
                            angles |-> Some(<<Flt(0), Flt(90)>>),
                            coupling_loss_factor |-> None]>> >>,
   energy |-> Some([data |-> Arr2(<< <<Flt(1), IntNum(2)>>, <<Flt(3), Flt(4)>>,
                                     <<Flt(5), Flt(6)>> >>),
                    dof_id |-> <<IntNum(1), IntNum(2)>>,
                    dof_type |-> <<IntNum(3), IntNum(0)>>]),
   result |-> Some([data |-> Arr2(<< <<IntNum(1), Flt(2)>>, <<Flt(3), Flt(4)>>,
                                     <<Flt(5), Flt(6)>> >>),
                    dof_id |-> <<IntNum(1), IntNum(2)>>,
                    dof_type |-> <<IntNum(7), IntNum(0)>>]),
   power_input |-> Some([data |-> Arr1(<<Flt(7), Flt(8), Flt(9)>>),
                         dof_id |-> <<IntNum(1)>>]),
   sea_matrix |-> Some([matrix |-> Arr3(<< << <<Cpx(7, 1)>> >> >>),
                        frequency |-> <<IntNum(100)>>,
                        system_ids |-> <<1>>, system_types |-> <<"RectangularPlate">>]),
   loads |-> << <<"L", [name |-> "L", type |-> "power", spectrum |-> None]>> >>,
   units |-> << <<"energy", "mJ">> >>]

BundlePool == {HandMadeBundle}

\* --- actions
PQuiet == [op |-> "none", raised |-> FALSE, n |-> "", m |-> None, args |-> <<>>,
           path |-> <<>>,
           kw |-> <<>>, before |-> <<>>, ret |-> None]

PostInit ==
  /\ units = [q \in Quantities |->
                CASE q = "energy" -> "J" [] q = "power" -> "W"
                  [] q = "velocity" -> "m/s" [] q = "pressure" -> "Pa"
                  [] q = "length" -> "m" [] OTHER -> "m2"]
  /\ rd = EmptyBundle("SEA_Analysis")
  /\ file = None
  /\ nproc = 0
  /\ ptlast = PQuiet
  /\ solver = [n \in ModelNames |-> ArraysOf(Original(n))]
  /\ keeps \in BOOLEAN
  /\ kept = None
  /\ h5py_available \in BOOLEAN

set_units ==
  \E kw \in KwArgs :
    /\ units' = SetUnits(units, kw)
    /\ ptlast' = [PQuiet EXCEPT !.op = "set_units", !.kw = kw,
                    !.before = <<units>>]
    /\ UNCHANGED <<rd, file, nproc, solver, keeps, kept, h5py_available, engineVars, projectVars>>

\* The models the caller has processed: the caller that keeps the first
\* bundle also holds the model with the gapped axis.
ModelsHeld == IF keeps THEN ModelNames ELSE ModelNames \ {"gapped"}

process_model ==
  \E n \in ModelsHeld, a \in UnitArgs :
    LET m == ModelWith(n, solver[n]) IN
    /\ nproc < MaxProcess
    /\ nproc' = nproc + 1
    /\ units' = [units EXCEPT !["energy"] = a[1], !["power"] = a[2],
                              !["velocity"] = a[3]]
    /\ rd' = Extracted(rd, m, units')
    /\ solver' = [solver EXCEPT ![n] = ArraysOf(AfterExtraction(m, units'))]
    /\ ptlast' = [PQuiet EXCEPT !.op = "process_model", !.n = n, !.m = Some(m),
                    !.args = a, !.ret = Some(rd')]
    /\ kept' = IF keeps /\ kept = None
               THEN Some([snap |-> rd', n |-> n, args |-> a, same |-> TRUE])
               ELSE kept
    /\ UNCHANGED <<file, keeps, h5py_available, engineVars, projectVars>>

\* A caller installs a bundle of its own.
assign_result_data ==
  \E b \in BundlePool :
    /\ rd' = b
    /\ ptlast' = [PQuiet EXCEPT !.op = "assign"]
    /\ kept' = IF kept = None THEN kept
               ELSE Some([Val(kept) EXCEPT !.same = FALSE])
    /\ UNCHANGED <<units, file, nproc, solver, keeps, h5py_available, engineVars, projectVars>>

\* The body of export_json(path), called as the operation op on argument arg:
\* to_dict runs before the file is opened.
ExportJsonTo(path, op, arg) ==
  IF ToDictRaises(rd)
  THEN /\ file' = file
       /\ ptlast' = [PQuiet EXCEPT !.op = op, !.path = arg, !.raised = TRUE]
  ELSE /\ file' = Some([path |-> path, fmt |-> "json", doc |-> to_dict(rd),
                        src |-> rd])
       /\ ptlast' = [PQuiet EXCEPT !.op = op, !.path = arg]

export_json ==
  \E path \in JsonPaths :
    /\ ExportJsonTo(path, "export_json", path)
    /\ UNCHANGED <<units, rd, nproc, solver, keeps, kept, h5py_available, engineVars, projectVars>>

export_hdf5 ==
  \E path \in H5Paths :
    /\ IF h5py_available
       THEN /\ file' = Some([path |-> path, fmt |-> "hdf5",
                             doc |-> HdfDoc(rd, units), src |-> rd])
            /\ ptlast' = [PQuiet EXCEPT !.op = "export_hdf5", !.path = path]
       ELSE ExportJsonTo(replace(replace(path, ".h5", ".json"), ".hdf5", ".json"),
                         "export_hdf5", path)
    /\ UNCHANGED <<units, rd, nproc, solver, keeps, kept, h5py_available, engineVars, projectVars>>

\* load_results(path) on the file last written: the decoder is chosen by the
\* extension; h5py rejects a text file, json.load a binary one.
load_results ==
  /\ file # None
  /\ LET f == Val(file)
         binary == suffix(f.path) \in {".h5", ".hdf5"}
         raises == IF binary THEN ~h5py_available \/ f.fmt # "hdf5"
                   ELSE f.fmt # "json"
     IN ptlast' = [PQuiet EXCEPT !.op = "load_results", !.path = f.path,
                     !.raised = raises,
                     !.ret = IF raises THEN None
                             ELSE IF binary THEN Some(_load_hdf5(f.doc))
                             ELSE Some(_load_json(f.doc))]
  /\ UNCHANGED <<units, rd, file, nproc, solver, keeps, kept, h5py_available,
                 engineVars, projectVars>>

PostNext ==
  \/ set_units
  \/ process_model
  \/ assign_result_data
  \/ export_json
  \/ load_results

\* ================================================================ SEAProject
\* The project keeps its elements by name and registers them with its engine
\* (models/project.py); systems, system_id and counter are those of
\* project.engine.
NameOf(e) ==
  CASE e = 1 -> "deck" [] e = 2 -> "cabin" [] e = 3 -> "hull" [] OTHER -> "mast"

\* The name of the MaterialDefinition an element refers to, None without one.
MaterialOf(e) == IF Entity(e).material THEN Some("steel") ELSE None

\* project.materials, as add_material filled it.
ProjectMaterials == << <<"steel", [name |-> "steel", material_type |-> "solid"]>> >>

ProjectInit ==
  /\ structures = <<>>
  /\ acoustic_spaces = <<>>
  /\ project_file = None
  /\ loaded = None

\* add_structure: the dict entry, then engine.add_structural_element.
SEAProject_add_structure ==
  \E e \in Ent :
    /\ Entity(e).cls = "StructuralElement"
    /\ Len(systems) < MaxSystems
    /\ ~InSystems(e)
    /\ structures' = DictSet(structures, NameOf(e), e)
    /\ counter' = NextId(counter)
    /\ system_id' = [system_id EXCEPT ![e] = counter']
    /\ systems' = Append(systems, e)
    /\ returned' = counter'
    /\ last' = Quiet
    /\ UNCHANGED <<acoustic_spaces, project_file, loaded, junctions, loads, model,
                   pyva_available, logs, nbuild, postVars>>

\* add_acoustic_space: the dict entry, then engine.add_acoustic_space.
SEAProject_add_acoustic_space ==
  \E e \in Ent :
    /\ Entity(e).cls = "AcousticSpace"
    /\ Len(systems) < MaxSystems
    /\ ~InSystems(e)
    /\ acoustic_spaces' = DictSet(acoustic_spaces, NameOf(e), e)
    /\ counter' = NextId(counter)
    /\ system_id' = [system_id EXCEPT ![e] = counter']
    /\ systems' = Append(systems, e)
    /\ returned' = counter'
    /\ last' = Quiet
    /\ UNCHANGED <<structures, project_file, loaded, junctions, loads, model,
                   pyva_available, logs, nbuild, postVars>>

\* The entries save writes for a structure and for an acoustic space.
StructureData(e) == [name |-> NameOf(e), element_type |-> Entity(e).element_type]
SpaceData(e) == [name |-> NameOf(e)]

\* project_data of save: materials, structures and acoustic spaces by name.
project_data ==
  [materials |-> ProjectMaterials,
   structures |-> [i \in DOMAIN structures |->
                     <<structures[i][1], StructureData(structures[i][2])>>],
   acoustic_spaces |-> [i \in DOMAIN acoustic_spaces |->
                          <<acoustic_spaces[i][1], SpaceData(acoustic_spaces[i][2])>>]]

\* What the project holds about its elements: id and material by name.
Holdings(d) ==
  [i \in DOMAIN d |-> <<d[i][1], [system_id |-> system_id[d[i][2]],
                                  material |-> MaterialOf(d[i][2])]>>]

SEAProject_save ==
  /\ project_file' = Some([doc |-> project_data,
                           src |-> [structures |-> Holdings(structures),
                                    acoustic_spaces |-> Holdings(acoustic_spaces)]])
  /\ last' = Quiet
  /\ UNCHANGED <<structures, acoustic_spaces, loaded, systems, system_id, counter,
                 junctions, loads, model, pyva_available, logs, nbuild, returned,
                 postVars>>

\* struct_data.get('material'), then project.get_material(mat_name).
LoadedMaterial(struct_data, materials) ==
  IF "material" \in DOMAIN struct_data /\ DictHas(materials, struct_data["material"])
  THEN Some(struct_data["material"])
  ELSE None

\* load: a new project whose engine numbers first the structures of the
\* document, in its order, and then the acoustic spaces.
LoadedProject(doc) ==
  [structures |-> [i \in DOMAIN doc.structures |->
                     <<doc.structures[i][1],
                       [system_id |-> i,
                        material |-> LoadedMaterial(doc.structures[i][2],
                                                    doc.materials)]>>],
   acoustic_spaces |-> [i \in DOMAIN doc.acoustic_spaces |->
                          <<doc.acoustic_spaces[i][1],
                            [system_id |-> Len(doc.structures) + i,
                             material |-> None]>>],
   counter |-> Len(doc.structures) + Len(doc.acoustic_spaces)]

SEAProject_load ==
  /\ project_file # None
  /\ loaded' = Some([project |-> LoadedProject(Val(project_file).doc),
                     src |-> Val(project_file).src])
  /\ last' = Quiet
  /\ UNCHANGED <<structures, acoustic_spaces, project_file, systems, system_id,
                 counter, junctions, loads, model, pyva_available, logs, nbuild,
                 returned, postVars>>

ProjectNext ==
  \/ SEAProject_add_structure
  \/ SEAProject_add_acoustic_space
  \/ SEAProject_save
  \/ SEAProject_load

\* A project that is filled, saved and loaded.
ProjectSpecInit ==
  /\ EngineInit /\ PostInit /\ ProjectInit
  /\ pyva_available = TRUE /\ logs = FALSE /\ keeps = FALSE /\ h5py_available = TRUE

SpecProject == ProjectSpecInit /\ [][ProjectNext]_vars

\* The engine is exercised next to an untouched post-treatment.
EngineSpecInit ==
  /\ EngineInit /\ PostInit /\ ProjectInit
  /\ logs = FALSE /\ keeps = FALSE /\ h5py_available = TRUE

\* The registry alone, with the registrations of junctions and loads logged.
RegistryNext ==
  \/ add_structural_element
  \/ add_acoustic_space
  \/ add_junction
  \/ add_load

RegistrySpecInit ==
  /\ EngineInit /\ PostInit /\ ProjectInit
  /\ pyva_available = TRUE /\ logs = TRUE /\ keeps = FALSE /\ h5py_available = TRUE

SpecRegistry == RegistrySpecInit /\ [][RegistryNext]_vars

SpecEngine == EngineSpecInit /\ [][EngineNext]_vars

\* The post-treatment is exercised next to an engine whose backend is installed.
PostSpecInit ==
  /\ EngineInit /\ PostInit /\ ProjectInit
  /\ pyva_available = TRUE /\ logs = FALSE /\ keeps = FALSE /\ h5py_available = TRUE

\* Exports in both encodings, with and without the binary backend.
FilesNext ==
  \/ process_model
  \/ assign_result_data
  \/ export_json
  \/ export_hdf5
  \/ load_results

FilesSpecInit ==
  /\ EngineInit /\ PostInit /\ ProjectInit
  /\ pyva_available = TRUE /\ logs = FALSE /\ keeps = FALSE

SpecFiles == FilesSpecInit /\ [][FilesNext]_vars

\* Repeated processing by a caller that keeps the first bundle it was given.
RepeatNext ==
  \/ set_units
  \/ process_model

RepeatSpecInit ==
  /\ EngineInit /\ PostInit /\ ProjectInit
  /\ pyva_available = TRUE /\ logs = FALSE /\ keeps = TRUE /\ h5py_available = TRUE

SpecRepeat == RepeatSpecInit /\ [][RepeatNext]_vars

SpecPost == PostSpecInit /\ [][PostNext]_vars

\* ================================================================== claims
\* The entries of the last build's add_junction calls that stem from jname.
AddsFrom(jname) ==
  LET mine(a) == a.origin = jname IN SelectSeq(last.adds, mine)

\* build_model ran in the call just made and returned True.
Assembled == last.built /\ last.buildOk

\* What the entity model says about e, whatever the assembler does with it.
IsPlate(e) == Entity(e).cls = "StructuralElement" /\ Entity(e).element_type = "plate"
              /\ Entity(e).material
IsSpace(e) == Entity(e).cls = "AcousticSpace"
Registered_(e) == \E i \in DOMAIN systems : systems[i] = e
Convertible(e) == Registered_(e) /\ (IsPlate(e) \/ IsSpace(e))

\* C1: in a build_model run that returns success, every junction with N >= 2
\* participants gives rise to exactly 1 add_junction call when N = 2 and to
\* exactly N-1 when N > 2.
C1_PairwiseCount ==
  Assembled =>
    \A i \in DOMAIN junctions :
      LET n == Len(junctions[i][2].systems)
      IN n >= 2 => Len(AddsFrom(junctions[i][1])) = (IF n = 2 THEN 1 ELSE n - 1)

C1_Witness ==
  /\ Assembled
  /\ \E i, k \in DOMAIN junctions :
       Len(junctions[i][2].systems) = 2 /\ Len(junctions[k][2].systems) = 3
  /\ Len(last.adds) = 3

\* C2: a junction J over s[0..N-1], N > 2, is registered as J_0 .. J_{N-2} in
\* this order, J_i joins the objects resolved for s[i] and s[i+1] (the native
\* system of each converted participant), every name is a key of the model's
\* junction map, and none of its couplings is named J.
EndIs(o, e) ==
  /\ o.of = e
  /\ Convertible(e) => (o.native /\ o.ID = system_id[e] /\ o.gen = Val(model).gen)

C2_ChainNaming ==
  Assembled =>
    \A i \in DOMAIN junctions :
      LET jn == junctions[i][1]
          j == junctions[i][2]
          n == Len(j.systems)
          mine == AddsFrom(jn)
      IN n > 2 =>
           /\ Len(mine) = n - 1
           /\ \A k \in 1 .. Len(mine) :
                /\ mine[k].name = jn \o "_" \o ToString(k - 1)
                /\ mine[k].name # jn
                /\ mine[k].name \in DictKeys(Val(model).junctions)
                /\ Len(mine[k].c.systems) = 2
                /\ EndIs(mine[k].c.systems[1], j.systems[k])
                /\ EndIs(mine[k].c.systems[2], j.systems[k + 1])

\* The three-system junction "J" over plate 1, room 2, plate 3, all converted:
\* "J_0" joins 1-2 and "J_1" joins 2-3.
C2_Witness ==
  /\ Assembled
  /\ Len(last.converted) = 3
  /\ \E a, b \in DOMAIN last.adds :
       /\ last.adds[a].name = "J_0" /\ last.adds[a].origin = "J"
       /\ last.adds[a].c.systems[1].of = 1 /\ last.adds[a].c.systems[2].of = 2
       /\ last.adds[b].name = "J_1"
       /\ last.adds[b].c.systems[1].of = 2 /\ last.adds[b].c.systems[2].of = 3
       /\ \A x \in {a, b}, y \in 1 .. 2 : last.adds[x].c.systems[y].native

\* The coupling class Junction.to_pyva_junction builds for a declared kind.
KindClass(t) ==
  CASE t = "area" -> "AreaJunction"
    [] t = "line" -> "LineJunction"
    [] OTHER -> "SemiInfiniteFluid"

\* C3: the single coupling of a two-system junction is registered under the
\* junction's name, is of the junction's declared kind and carries its
\* declared area (area junction) or length and angles (line junction).
C3_DeclaredKind ==
  Assembled =>
    \A i \in DOMAIN junctions :
      LET jn == junctions[i][1]
          j == junctions[i][2]
          mine == AddsFrom(jn)
      IN Len(j.systems) = 2 =>
           /\ Len(mine) = 1
           /\ mine[1].name = jn
           /\ mine[1].c.cls = KindClass(j.junction_type)
           /\ j.junction_type = "area" => mine[1].c.area = j.area
           /\ j.junction_type = "line" =>
                mine[1].c.length = j.length /\ mine[1].c.thetas = j.angles

\* C4: the k-th registration returns k and stores k in the entity; one counter
\* serves both kinds, and the system list is in registration order.
C4_SharedCounter ==
  /\ counter = Len(systems)
  /\ systems # <<>> => returned = Len(systems)
  /\ \A k \in DOMAIN systems : system_id[systems[k]] = k
  /\ \A e \in Ent : ~Registered_(e) => system_id[e] = 0

C4_Witness ==
  /\ Len(systems) = 3
  /\ \E a, b \in DOMAIN systems :
       a < b /\ IsSpace(systems[a]) /\ Entity(systems[b]).cls = "StructuralElement"
  /\ returned = 3

\* The native systems expected from the registered convertible entities.
RECURSIVE ExpectedSystems(_)
ExpectedSystems(ss) ==
  IF ss = <<>> THEN <<>>
  ELSE (IF Convertible(Head(ss)) THEN <<Head(ss)>> ELSE <<>>)
       \o ExpectedSystems(Tail(ss))

\* C5: with the engine available and no exception caught, build_model returns
\* success iff some registered system converts; the model then holds exactly
\* the converted systems, in order; with none, no model handle is set.
C5_SuccessIffConverted ==
  (last.built /\ pyva_available /\ ~last.raised) =>
    /\ last.buildOk <=> (\E e \in Ent : Convertible(e))
    /\ last.buildOk =>
         /\ model # None
         /\ [k \in DOMAIN Val(model).systems |-> Val(model).systems[k].of]
              = ExpectedSystems(systems)
    /\ ~last.buildOk => model = None /\ last.before = None

C5_Witness ==
  /\ last.op = "build_model" /\ last.buildOk
  /\ \E e \in Ent : Registered_(e) /\ ~Convertible(e)
  /\ Len(Val(model).systems) = 2

\* C6: after build_model returned failure the engine holds no model handle,
\* and the solver is only ever invoked on a completely assembled model.
C6_NoHandleAfterFailure ==
  /\ (last.built /\ ~last.buildOk) => model = None
  /\ last.ran => Val(model).complete

\* --- post-treatment claims
SeqRel(R(_, _), xs, ys) ==
  Len(xs) = Len(ys) /\ \A i \in DOMAIN xs : R(xs[i], ys[i])

ArrRel(R(_, _), x, y) ==
  LET row(r, q) == SeqRel(R, r, q)
      mat(m, n) == SeqRel(row, m, n)
  IN /\ x.nd = y.nd
     /\ CASE x.nd = 1 -> row(x.a, y.a)
          [] x.nd = 2 -> mat(x.a, y.a)
          [] OTHER -> SeqRel(mat, x.a, y.a)

SameNumber(x, y) == x.re = y.re /\ x.im = y.im
RealPartOf(x, y) == x.re = y.re /\ x.im = 0

Loaded == ptlast.op = "load_results" /\ ptlast.ret # None /\ file # None
Got == Val(ptlast.ret)
Src == Val(file).src

BlockKept(got, src) ==
  IF src = None THEN got = None
  ELSE /\ got # None
       /\ ArrRel(SameNumber, Val(got).data, Val(src).data)
       /\ SeqRel(SameNumber, Val(got).dof_id, Val(src).dof_id)
       /\ SeqRel(SameNumber, Val(got).dof_type, Val(src).dof_type)

ModalKept(got, src) ==
  /\ DictKeys(got) = DictKeys(src)
  /\ \A i \in DOMAIN src :
       LET g == got[i][2]
           o == src[i][2]
       IN /\ g.system_id = o.system_id /\ g.system_name = o.system_name
          /\ g.system_type = o.system_type /\ g.wave_type = o.wave_type
          /\ SeqRel(SameNumber, g.modal_density, o.modal_density)
          /\ SeqRel(SameNumber, g.modal_overlap, o.modal_overlap)
          /\ SeqRel(SameNumber, g.frequency, o.frequency)

MatrixKept(got, src) ==
  IF src = None THEN got = None
  ELSE got # None /\ ArrRel(RealPartOf, Val(got).matrix, Val(src).matrix)

\* C7: a bundle that went through export_json and load_results has the same
\* frequency arrays, the same modal datasets under the same keys, the same
\* energy and response blocks (shape, values, DOF labels), and a power-balance
\* matrix equal to the real part of the original.
C7_JsonRoundTrip ==
  Loaded =>
    /\ SeqRel(SameNumber, Got.frequency_hz, Src.frequency_hz)
    /\ SeqRel(SameNumber, Got.frequency_rad, Src.frequency_rad)
    /\ ModalKept(Got.modal_data, Src.modal_data)
    /\ BlockKept(Got.energy, Src.energy)
    /\ BlockKept(Got.result, Src.result)
    /\ MatrixKept(Got.sea_matrix, Src.sea_matrix)

HasComplex(arr) == \E i \in DOMAIN arr.a : \E j \in DOMAIN arr.a[i] :
                     \E k \in DOMAIN arr.a[i][j] : arr.a[i][j][k].im # 0

C7_Witness ==
  /\ Loaded
  /\ Src.frequency_hz # <<>> /\ Src.modal_data # <<>>
  /\ Src.energy # None /\ Src.result # None
  /\ Src.sea_matrix # None /\ HasComplex(Val(Src.sea_matrix).matrix)

\* C8: the text round trip preserves every field but the imaginary part of
\* the matrix: the power-input block, the load records, the unit selections,
\* the analysis type and the junction records come back as they were exported.
C8_EveryFieldRoundTrips ==
  Loaded =>
    /\ Got.project_name = Src.project_name
    /\ Got.analysis_type = Src.analysis_type
    /\ Got.units = Src.units
    /\ Got.loads = Src.loads
    /\ Got.junctions = Src.junctions
    /\ IF Src.power_input = None THEN Got.power_input = None
       ELSE /\ Got.power_input # None
            /\ ArrRel(SameNumber, Val(Got.power_input).data,
                      Val(Src.power_input).data)

\* C9: set_units never raises; a valid (quantity, unit) pair is stored, and a
\* pair with an unknown quantity or an unknown unit changes no unit.
ValidPair(pr) ==
  \/ pr[1] = "energy" /\ pr[2] \in {"J", "mJ", "uJ"}
  \/ pr[1] = "power" /\ pr[2] \in {"W", "mW", "uW"}
  \/ pr[1] = "velocity" /\ pr[2] \in {"m/s", "mm/s", "um/s"}
  \/ pr[1] = "pressure" /\ pr[2] \in {"Pa", "uPa"}
  \/ pr[1] = "length" /\ pr[2] \in {"m", "mm", "um"}
  \/ pr[1] = "area" /\ pr[2] \in {"m2", "cm2", "mm2"}

C9_SetUnitsValidates ==
  ptlast.op = "set_units" =>
    LET kw == ptlast.kw
        before == ptlast.before[1]
    IN /\ ~ptlast.raised
       /\ \A i \in DOMAIN kw : ValidPair(kw[i]) => units[kw[i][1]] = kw[i][2]
       /\ \A q \in DOMAIN units :
            (\A i \in DOMAIN kw : kw[i][1] = q => ~ValidPair(kw[i]))
              => units[q] = before[q]

C9_Witness ==
  /\ ptlast.op = "set_units"
  /\ \E i \in DOMAIN ptlast.kw : ValidPair(ptlast.kw[i])
  /\ \E i \in DOMAIN ptlast.kw : ~ValidPair(ptlast.kw[i])
  /\ units # ptlast.before[1]

\* C10: the energy block and the power-input block process_model stores are
\* the solver's arrays times the factor of the requested unit, applied once:
\* 1 for J/W, 1000 for mJ/mW, 1000000 for uJ/uW.
Factor(unit) ==
  CASE unit \in {"J", "W"} -> 1
    [] unit \in {"mJ", "mW"} -> 1000
    [] unit \in {"uJ", "uW"} -> 1000000

TimesFactor(k, x, y) == x.re = y.re * k /\ x.im = 0

Processed == ptlast.op = "process_model"

VelocityFactorOf(unit) ==
  CASE unit = "m/s" -> 1 [] unit = "mm/s" -> 1000 [] unit = "um/s" -> 1000000

\* got is the 2-D array orig with every column of DOF type 7 multiplied by k.
VelocityColumnsTimes(k, got, orig, dof) ==
  /\ got.nd = 2 /\ Len(got.a) = Len(orig.a)
  /\ \A r \in DOMAIN orig.a :
       /\ Len(got.a[r]) = Len(orig.a[r])
       /\ \A c \in DOMAIN orig.a[r] :
            got.a[r][c].re =
              orig.a[r][c].re * (IF c \in DOMAIN dof /\ dof[c].re = 7 THEN k ELSE 1)

\* C11: however often and with whatever units a solved model is processed,
\* the solver's own energy, response and power arrays stay as the solver
\* left them, and what a call stores is the original array times the factor
\* of that call's unit only.
C11_NoConversionDrift ==
  /\ solver = [n \in ModelNames |-> ArraysOf(Original(n))]
  /\ Processed =>
       LET o == Original(ptlast.n)
           eu == ptlast.args[1]
           pu == ptlast.args[2]
           vu == ptlast.args[3]
           E(x, y) == TimesFactor(Factor(eu), x, y)
           P(x, y) == TimesFactor(Factor(pu), x, y)
       IN /\ (o.energy # None /\ eu \in {"J", "mJ", "uJ"}) =>
               ArrRel(E, Val(rd.energy).data, Val(o.energy).ydata)
          /\ (o.power_input # None /\ pu \in {"W", "mW", "uW"}) =>
               ArrRel(P, Val(rd.power_input).data, Val(o.power_input).ydata)
          /\ (o.result # None /\ Val(o.result).ydata.nd = 2
                /\ vu \in {"m/s", "mm/s", "um/s"}) =>
               VelocityColumnsTimes(VelocityFactorOf(vu), Val(rd.result).data,
                                    Val(o.result).ydata, ListOr(Val(o.result).DOF))

C11_Witness ==
  /\ Processed /\ nproc = 2 /\ kept # None
  /\ Val(kept).n = "solved" /\ ptlast.n = "solved"
  /\ Val(kept).args = <<"mJ", "mW", "mm/s">>
  /\ ptlast.args = <<"uJ", "uW", "um/s">>
  /\ Val(rd.result).data # Val(SolvedModel.result).ydata

\* The keys _extract_systems writes for the systems of model m.
SystemKeysOf(m) == [i \in DOMAIN m.systems |-> ToString(m.systems[i][1])]

\* C12: process_model never raises and returns a bundle; a step that fails
\* (here the frequency step, on a model without xdata) leaves its field
\* empty, and the other steps still run and fill their own fields.
C12_FailedStepLeavesFieldEmpty ==
  Processed =>
    LET m == Val(ptlast.m) IN
    /\ ~ptlast.raised /\ ptlast.ret # None
    /\ m.xdata = None => (rd.frequency_hz = <<>> /\ rd.frequency_rad = <<>>)
    /\ \A i \in DOMAIN m.systems : DictHas(rd.systems, SystemKeysOf(m)[i])
    /\ m.energy # None => rd.energy # None

\* C13: every process_model call yields a fresh bundle holding only what came
\* from that call's model, and the bundle an earlier call returned is not
\* changed by a later call.
C13_FreshBundlePerCall ==
  /\ Processed =>
       LET keys == SystemKeysOf(Val(ptlast.m))
       IN DictKeys(rd.systems) = {keys[i] : i \in DOMAIN keys}
  /\ (kept # None /\ Val(kept).same) => Val(kept).snap = rd

\* --- the registry of junctions and loads
\* d2 is d after d[name] = entity: the name is bound to the entity, every
\* other name keeps its entry, and no name occurs twice.
Overwritten(d, d2, name, entity) ==
  /\ DictKeys(d2) = DictKeys(d) \cup {name}
  /\ Len(d2) = Cardinality(DictKeys(d2))
  /\ DictGet(d2, name) = entity
  /\ \A k \in DictKeys(d) \ {name} : DictGet(d2, k) = DictGet(d, k)

\* C14: a registration of a junction or a load binds its name to the entity
\* just registered, replaces an earlier entry of that name without error,
\* leaves every other name's entry alone, and keeps one entry per name.
C14_LatestRegistrationWins ==
  [][ /\ last'.op = "add_junction" =>
           /\ Overwritten(junctions, junctions', Val(last'.arg).name, Val(last'.arg))
           /\ loads' = loads
      /\ last'.op = "add_load" =>
           /\ Overwritten(loads, loads', Val(last'.arg).name, Val(last'.arg))
           /\ junctions' = junctions ]_vars

\* The last registration hit a name that was registered before another one.
C14_Witness ==
  /\ last.op = "add_junction"
  /\ Len(junctions) = 2 /\ junctions[1][1] = Val(last.arg).name
  /\ junctions[1][2] = Val(last.arg)
  /\ loads # <<>>

\* --- the two encodings
\* The path with only its extension changed.
WithExtension(path, ext) == [path EXCEPT ![Len(path)] = ext]

\* What the text encoding gives back for the bundle the file was written from.
ViaText == _load_json(to_dict(Src))

\* C15: a bundle that went through export_hdf5 and load_results equals the
\* one that goes through export_json and load_results: junction records,
\* response block, every modal dataset's system name and kind, and the
\* system kinds of the power-balance snapshot included.
C15_BinaryMirrorsText ==
  (Loaded /\ Val(file).fmt = "hdf5" /\ ~ToDictRaises(Src)) =>
    /\ Got.project_name = ViaText.project_name
    /\ SeqRel(SameNumber, Got.frequency_hz, ViaText.frequency_hz)
    /\ SeqRel(SameNumber, Got.frequency_rad, ViaText.frequency_rad)
    /\ BlockKept(Got.energy, ViaText.energy)
    /\ BlockKept(Got.result, ViaText.result)
    /\ Got.junctions = ViaText.junctions
    /\ DictKeys(Got.modal_data) = DictKeys(ViaText.modal_data)
    /\ \A i \in DOMAIN Got.modal_data :
         LET g == Got.modal_data[i][2]
             t == DictGet(ViaText.modal_data, Got.modal_data[i][1])
         IN g.system_name = t.system_name /\ g.system_type = t.system_type
    /\ (Got.sea_matrix = None) = (ViaText.sea_matrix = None)
    /\ Got.sea_matrix # None =>
         Val(Got.sea_matrix).system_types = Val(ViaText.sea_matrix).system_types

\* C16: without the binary backend export_hdf5 does not raise, writes the
\* text document of the bundle to the requested path with the extension
\* replaced by .json, and load_results decodes that file as text.
C16_FallbackToText ==
  /\ (ptlast.op = "export_hdf5" /\ ~h5py_available /\ ~ToDictRaises(rd)) =>
       /\ ~ptlast.raised /\ file # None
       /\ Val(file).fmt = "json" /\ Val(file).doc = to_dict(rd)
       /\ Val(file).path = WithExtension(ptlast.path, ".json")
  /\ (ptlast.op = "load_results" /\ ~h5py_available) =>
       /\ ~ptlast.raised
       /\ ptlast.ret = Some(_load_json(Val(file).doc))

\* --- units on record
\* C17: whatever set_units and process_model calls were made, the units on
\* record for energy, power and velocity are members of the enumerated sets.
C17_UnitsEnumerated ==
  /\ units["energy"] \in {"J", "mJ", "uJ"}
  /\ units["power"] \in {"W", "mW", "uW"}
  /\ units["velocity"] \in {"m/s", "mm/s", "um/s"}

Exported == ptlast'.op = "export_json" /\ ~ptlast'.raised /\ file' # None

\* C18: the document export_json writes right after a process_model call
\* records in its metadata the energy, power and velocity units of that call.
C18_MetadataRecordsUnits ==
  [][ (Processed /\ Exported) =>
        LET u == Val(file').doc.metadata.units
        IN /\ DictHas(u, "energy") /\ DictGet(u, "energy") = ptlast.args[1]
           /\ DictHas(u, "power") /\ DictGet(u, "power") = ptlast.args[2]
           /\ DictHas(u, "velocity") /\ DictGet(u, "velocity") = ptlast.args[3] ]_vars

\* The exported block has data of the shape of the bundle's block.
SameShape(x, y) ==
  LET any(a, b) == TRUE IN ArrRel(any, x, y)

\* C19: for a bundle process_model just produced, with 1-D or 2-D energy,
\* response or power-input data, export_json completes and writes every
\* block that is present with data of the same shape.
C19_ExportsEveryShape ==
  [][ (Processed /\ ptlast'.op = "export_json") =>
        /\ ~ptlast'.raised /\ file' # None
        /\ LET doc == Val(file').doc
           IN /\ (rd.energy # None) =>
                   /\ doc.energy # None
                   /\ SameShape(Val(doc.energy).data, Val(rd.energy).data)
              /\ (rd.result # None) =>
                   /\ doc.result # None
                   /\ SameShape(Val(doc.result).data, Val(rd.result).data)
              /\ (rd.power_input # None) =>
                   /\ doc.power_input # None
                   /\ SameShape(Val(doc.power_input).data, Val(rd.power_input).data) ]_vars

\* --- the frame of build_model
\* C20: build_model only reads the entity model: whether it returns True or
\* False, the system list, the junction map, the load map, the id counter
\* and the entities' fields (system_id, a junction's systems) are afterwards
\* what they were before.
C20_BuildOnlyReads ==
  [][ nbuild' # nbuild =>
        /\ systems' = systems /\ system_id' = system_id /\ counter' = counter
        /\ junctions' = junctions /\ loads' = loads ]_vars

C20_Witness ==
  /\ last.op = "build_model" /\ last.built /\ ~last.buildOk /\ last.raised
  /\ Len(systems) >= 2 /\ junctions # <<>> /\ loads # <<>>
  /\ nbuild = 2

\* C21: every coupling build_model adds has two solver-native systems as its
\* endpoints, made in that same run and held by the assembled model; no
\* entity record is handed to the engine as an endpoint.
C21_NativeEndpoints ==
  (last.built /\ model # None) =>
    \A k \in DOMAIN last.adds :
      \A i \in DOMAIN last.adds[k].c.systems :
        LET end == last.adds[k].c.systems[i]
        IN /\ end.native
           /\ end.gen = nbuild
           /\ \E m \in DOMAIN Val(model).systems : Val(model).systems[m] = end

\* got is the response array orig with the values of every DOF of type 7
\* multiplied by k and every other value as it was.
ResponseTimes(k, got, orig, dof) ==
  LET f(c) == IF c \in DOMAIN dof /\ dof[c].re = 7 THEN k ELSE 1
  IN /\ got.nd = orig.nd
     /\ IF orig.nd = 2 THEN VelocityColumnsTimes(k, got, orig, dof)
        ELSE /\ Len(got.a) = Len(orig.a)
             /\ \A c \in DOMAIN orig.a : got.a[c].re = orig.a[c].re * f(c)

\* C22: the response block process_model stores is the solver's response
\* array with exactly the columns of DOF type 7 multiplied by the factor of
\* the velocity unit (1, 1000, 1000000), once, and every other column
\* unchanged, for each of the velocity units.
C22_VelocityColumnsScaled ==
  Processed =>
    LET o == Original(ptlast.n)
        vu == ptlast.args[3]
    IN (o.result # None /\ vu \in {"m/s", "mm/s", "um/s"}) =>
         /\ rd.result # None
         /\ ResponseTimes(VelocityFactorOf(vu), Val(rd.result).data,
                          Val(o.result).ydata, ListOr(Val(o.result).DOF))

\* C23: when reading one coupling fails during junction extraction, that
\* coupling is recorded with the field left empty and every other coupling
\* of the model, also those after the failing one, is recorded as read.
C23_OtherCouplingsRecorded ==
  Processed =>
    LET js == Val(ptlast.m).junctions
    IN \A i \in DOMAIN js :
         /\ DictHas(rd.junctions, js[i][1])
         /\ IF js[i][2].raises
            THEN DictGet(rd.junctions, js[i][1]).coupling_loss_factor = None
            ELSE DictGet(rd.junctions, js[i][1]) = JunctionDataOf(js[i][1], js[i][2])

\* C24: in every bundle process_model leaves, the Hz and the rad/s arrays
\* are populated together: same length, and element i of the Hz array is
\* element i of the rad/s array divided by 2*pi.
C24_FrequenciesTogether ==
  Processed =>
    /\ Len(rd.frequency_hz) = Len(rd.frequency_rad)
    /\ \A i \in DOMAIN rd.frequency_rad :
         rd.frequency_hz[i] = DivTwoPi(rd.frequency_rad[i])

\* C25: solve() runs build_model exactly when no model handle exists; when
\* that build fails it returns failure and the solver is not invoked; the
\* solver is invoked only on an existing handle, and solve() returns success
\* only if the solver ran and did not raise (the model is then solved).
C25_SolveNeedsModel ==
  last.op = "solve" =>
    /\ last.built <=> last.before = None
    /\ (last.built /\ ~last.buildOk) => (~last.ok /\ ~last.ran)
    /\ last.ran => (model # None /\ (last.before # None \/ last.buildOk))
    /\ last.ok => (last.ran /\ Val(model).solved)

C25_Witness ==
  /\ last.op = "solve" /\ last.built /\ ~last.buildOk /\ ~last.ok /\ ~last.ran
  /\ systems # <<>>

\* C26: after a successful build_model the couplings made for different
\* junctions have different registration names, and the model holds as many
\* couplings as were made: 1 for a junction of two systems, N-1 for one of
\* N > 2, summed over the junctions.
C26_NoNameClash ==
  (last.built /\ last.buildOk) =>
    /\ \A i, k \in DOMAIN last.adds :
         last.adds[i].origin # last.adds[k].origin
           => last.adds[i].name # last.adds[k].name
    /\ Len(Val(model).junctions) = Len(last.adds)
    /\ Len(last.adds) = Len(Plan(junctions, nbuild))

\* hm was constructed by the build_model run just made and holds only what
\* that run put into it: the systems converted from the present registry,
\* couplings constructed in this run, and loads of the present registry.
NewlyConstructed(hm, run, adds) ==
  /\ hm.gen = run
  /\ hm.systems = pyva_systems_of(systems, run)
  /\ \A i \in DOMAIN hm.junctions :
       \E k \in DOMAIN adds :
         adds[k].name = hm.junctions[i][1] /\ adds[k].c = hm.junctions[i][2]
  /\ hm.loads \in {<<>>, NativeLoads(loads)}

\* C27: solve() on an existing model does not rebuild and solves that very
\* model; registering systems, junctions or loads leaves the model as built,
\* so they are part of no model until build_model runs again; and a
\* build_model run that sets the handle sets it to a model constructed in
\* that run from the registry alone, nothing carried over from the last one.
C27_SolvesLatestBuild ==
  [][ /\ last'.op \notin {"build_model", "solve"} => model' = model
      /\ (last'.op = "solve" /\ model # None) =>
           /\ ~last'.built /\ nbuild' = nbuild /\ last'.ran
           /\ model' \in {model, Some([Val(model) EXCEPT !.solved = TRUE])}
      /\ (last'.built /\ last'.buildOk) => model' # model
      /\ (last'.built /\ model' # model) =>
           NewlyConstructed([Val(model') EXCEPT !.solved = FALSE],
                            nbuild', last'.adds) ]_vars

C27_Witness ==
  /\ last.op = "solve" /\ last.before # None /\ last.ok
  /\ Val(model).gen = 2 /\ nbuild = 2
  /\ \E i \in DOMAIN systems :
       /\ Converts(systems[i])
       /\ \A m \in DOMAIN Val(model).systems : Val(model).systems[m].of # systems[i]
  /\ \E i \in DOMAIN junctions : ~DictHas(Val(model).junctions, junctions[i][1])

\* C28: a process_model call without unit arguments that follows set_units
\* works in the units set_units left in force: the energy, power and
\* velocity selections are still those, and the energy and power arrays are
\* the solver's times the factors of those units.
C28_SetUnitsHonoured ==
  [][ (/\ ptlast.op = "set_units"
       /\ ptlast'.op = "process_model"
       /\ ptlast'.args = <<"mJ", "mW", "mm/s">>) =>
        LET m == Val(ptlast'.m)
            E(x, y) == TimesFactor(Factor(units["energy"]), x, y)
            P(x, y) == TimesFactor(Factor(units["power"]), x, y)
        IN /\ units'["energy"] = units["energy"]
           /\ units'["power"] = units["power"]
           /\ units'["velocity"] = units["velocity"]
           /\ m.energy # None =>
                ArrRel(E, Val(rd'.energy).data, Val(m.energy).ydata)
           /\ m.power_input # None =>
                ArrRel(P, Val(rd'.power_input).data, Val(m.power_input).ydata) ]_vars

\* got holds, under the same names, the ids and material associations of src.
SameHoldings(got, src) ==
  /\ DictKeys(got) = DictKeys(src)
  /\ \A k \in DictKeys(src) :
       /\ DictGet(got, k).system_id = DictGet(src, k).system_id
       /\ DictGet(got, k).material = DictGet(src, k).material

\* C29: the project load returns for a file that save wrote has every
\* structure and every acoustic space of the saved project, each with the
\* system id and the material association it had when saved, whatever the
\* order in which they were registered.
C29_ProjectRoundTrip ==
  loaded # None =>
    /\ SameHoldings(Val(loaded).project.structures, Val(loaded).src.structures)
    /\ SameHoldings(Val(loaded).project.acoustic_spaces,
                    Val(loaded).src.acoustic_spaces)

\* The junctions of the registry with fewer than two participants.
Lone == {i \in DOMAIN junctions : Len(junctions[i][2].systems) < 2}

\* C30: a junction with fewer than 2 participants sits in the registry like
\* any other; a build_model run makes no coupling for it and logs no warning
\* about it, every coupling of the model joins two systems, and, unless the
\* engine raised, the run returns success when at least one system converted.
C30_LoneJunctionIgnored ==
  last.built =>
    \A i \in Lone :
      /\ AddsFrom(junctions[i][1]) = <<>>
      /\ ~JunctionWarning(junctions[i][2])
      /\ (~last.raised /\ last.converted # <<>>) => (last.buildOk /\ model # None)
      /\ (model # None) =>
           \A k \in DOMAIN Val(model).junctions :
              Len(Val(model).junctions[k][2].systems) = 2

C30_Witness ==
  /\ last.op = "build_model" /\ last.ok /\ Lone # {}
  /\ Len(junctions) = 2 /\ Len(last.adds) = 2
  /\ Len(last.converted) >= 2

====
